---------------------------- MODULE Spec2Model ----------------------------
(***************************************************************************)
(* A model of github.com/Lei2050/array-pool:                               *)
(*   - ArrayList  (src/unnamed/part_000): the segmented list,              *)
(*   - Pool       (src/pool.go): free-index registry over an ArrayList,    *)
(*   - ArrayPool  (src/array_list_test.go, lines 78-188): the contiguous   *)
(*     pool with the sentinel slot 0.                                      *)
(* Go slices are 0-indexed; a slice s is modelled as a function on         *)
(* 0..len(s)-1 (arrays) or as a TLA+ sequence whose element k+1 is s[k]    *)
(* (the segment list).  A nil slice is the empty function << >>.  The      *)
(* element type T is modelled by the integers 0..MaxVal, 0 being Go's zero *)
(* value of T.  A pointer *T into a segment is the pair <<segment, offset>>*)
(* of the element it points to.                                            *)
(***************************************************************************)
EXTENDS Integers, Sequences, FiniteSets, TLC

VARIABLES
    \* Pool (src/pool.go)
    frees,      \* Pool.frees: the set of keys of the map
    items,      \* Pool.items: the ArrayList
    live,       \* history: indices returned by Pool.Alloc, not freed or cleared since
    written,    \* history: for each live index, the last value written to its slot
    ret,        \* the last Pool call: its name, argument or returned index,
                \* returned pointer, whether it panicked, and (history)
                \* whether that index was live when the call was made
    \* ArrayPool (src/array_list_test.go)
    arr,        \* ArrayPool.arr
    alloc,      \* ArrayPool.alloc ("allocPtr")
    free,       \* ArrayPool.free: the set of keys of the map
    apLive,     \* history: ids returned by ArrayPool.Alloc and not freed since
    apWritten,  \* history: for each live id, the last value written to its slot
    apCap,      \* history: the capacity NewArrayPool was called with
    apRet,      \* the last ArrayPool call: its name, the id Alloc returned or
                \* Free released (0 otherwise), whether it panicked, and
                \* (history) whether that id was live when the call was made
    \* the reuse round trip on a pool (allocate N, free all N, allocate N)
    rt,         \* history: the phase of the round trip, the indices of the first
                \* and of the second batch, the calls made in the second batch,
                \* and a count: for a Pool, items.Count() when the first batch
                \* was complete; for an ArrayPool, alloc after the last Free
    pc,         \* the scripted run of TestPool: the number of Allocs it makes
                \* before its Frees and the calls it has made (0, 0: no script)
    \* ArrayList on its own (src/unnamed/part_000)
    list,       \* the ArrayList
    lret,       \* the last ArrayList call: its name, its index argument (0 if
                \* none), the pointer it returned, whether it panicked
    appended    \* history: whether only Add and Alloc were called since
                \* NewArrayList, and if so the values appended, in order

poolVars == <<frees, items, live, written, ret>>
apVars == <<arr, alloc, free, apLive, apWritten, apCap, apRet>>
listVars == <<list, lret, appended>>
vars == <<poolVars, apVars, rt, pc, listVars>>

\* ------------------------------------------------------------------ bounds
\* Largest value a caller stores in a slot (0 is the zero value of T).
MaxVal == 1
\* Largest segmentSize argument handed to NewPool.
MaxSegArg == 3
\* The caller stops extending the segmented pool at this many items.
MaxItems == 4
\* Largest capacity handed to NewArrayPool.
MaxCap == 4
\* The caller stops taking fresh ids from the ArrayPool once alloc exceeds this.
MaxId == 5

\* The caller stops extending the ArrayList at this many elements.
MaxCount == 5

\* --------------------------------------------------------------- constants
DefaultSegmentSize == 128
\* const threshold in ArrayPool.nextCap
Threshold == 256

Vals == 0..MaxVal
\* The zero value of T: ArrayList.defaultValue is declared and never assigned.
ZeroValue == 0
\* No pointer (nil).
NoPtr == << >>

\* ------------------------------------------------------- integer bit math
RECURSIVE BitOr(_, _)
\* a | b on non-negative integers
BitOr(a, b) ==
    IF a = 0 THEN b
    ELSE IF b = 0 THEN a
    ELSE (IF (a % 2 = 1) \/ (b % 2 = 1) THEN 1 ELSE 0) + 2 * BitOr(a \div 2, b \div 2)

RECURSIVE BitAnd(_, _)
\* a & b on non-negative integers
BitAnd(a, b) ==
    IF a = 0 \/ b = 0 THEN 0
    ELSE (IF (a % 2 = 1) /\ (b % 2 = 1) THEN 1 ELSE 0) + 2 * BitAnd(a \div 2, b \div 2)

RECURSIVE Pow2(_)
Pow2(k) == IF k = 0 THEN 1 ELSE 2 * Pow2(k - 1)

\* n >> k on non-negative integers
Shr(n, k) == n \div Pow2(k)

RECURSIVE TrailingZeros(_)
\* bits.TrailingZeros(n) for n > 0
TrailingZeros(n) == IF n % 2 = 1 THEN 0 ELSE 1 + TrailingZeros(n \div 2)

\* NearestPowerOf2(n) for 1 <= n < 2^31: n--, smear the high bit down, n++.
NearestPowerOf2(n) ==
    LET n0 == n - 1
        n1 == BitOr(n0, Shr(n0, 1))
        n2 == BitOr(n1, Shr(n1, 2))
        n3 == BitOr(n2, Shr(n2, 4))
        n4 == BitOr(n3, Shr(n3, 8))
        n5 == BitOr(n4, Shr(n4, 16))
    IN  n5 + 1

\* ---------------------------------------------------------------- ArrayList
\* Segment[T]{arr: make([]T, size)}: a zeroed array and count 0.
NewSegment(size) == [arr |-> [i \in 0..(size - 1) |-> ZeroValue], count |-> 0]

\* NewArrayList(segmentSize)
NewArrayList(segmentSize) ==
    LET size == NearestPowerOf2(IF segmentSize <= 0 THEN DefaultSegmentSize
                                ELSE segmentSize)
    IN  [defaultValue     |-> ZeroValue,
         count            |-> 0,
         segments         |-> << >>,
         segmentIdx       |-> 0,
         segmentSize      |-> size,
         segmentSizeMask  |-> size - 1,
         segmentSizeShift |-> TrailingZeros(size)]

\* al.segments[k]
SegAt(al, k) == al.segments[k + 1]

\* ArrayList.Count
ListCount(al) == al.count

\* ArrayList.Alloc: the list after the call and the pointer it returns.
ListAlloc(al) ==
    LET n     == Len(al.segments)
        full  == n > 0 /\ SegAt(al, al.segmentIdx).count = al.segmentSize
        segs1 == IF n = 0 \/ (full /\ al.segmentIdx = n - 1)
                 THEN Append(al.segments, NewSegment(al.segmentSize))
                 ELSE al.segments
        idx1  == IF full THEN al.segmentIdx + 1 ELSE al.segmentIdx
        cnt1  == segs1[idx1 + 1].count + 1
        segs2 == [segs1 EXCEPT ![idx1 + 1].count = cnt1]
    IN  [al  |-> [al EXCEPT !.segments = segs2, !.segmentIdx = idx1,
                            !.count = al.count + 1],
         ptr |-> <<idx1, cnt1 - 1>>]

\* Mutant of RefOf: the offset is not masked.
RefOf_NoMask(al, idx) == <<Shr(idx, al.segmentSizeShift), idx>>

\* The element GetRef(idx) addresses: <<idx >> shift, idx & mask>>.
RefOf(al, idx) ==
    <<Shr(idx, al.segmentSizeShift), BitAnd(idx, al.segmentSizeMask)>>

\* Whether p is an element of the list's storage (indexing it does not panic).
InStorage(al, p) ==
    /\ p # NoPtr
    /\ p[1] >= 0 /\ p[1] < Len(al.segments)
    /\ p[2] \in DOMAIN SegAt(al, p[1]).arr

\* Mutant of GetPanics: the bound check is idx > count.
GetPanics_PastCount(al, idx) ==
    \/ idx > al.count
    \/ idx < 0
    \/ ~InStorage(al, RefOf(al, idx))

\* ArrayList.Get / GetRef panic: the "out of bound" check, then Go's own
\* index checks on segments[...] and arr[...].
GetPanics(al, idx) ==
    \/ idx >= al.count
    \/ idx < 0
    \/ ~InStorage(al, RefOf(al, idx))

\* *p, for p in storage
Deref(al, p) == SegAt(al, p[1]).arr[p[2]]

\* ArrayList.Get(idx), when it does not panic
ListGet(al, idx) == Deref(al, RefOf(al, idx))

\* *p = v
Store(al, p, v) == [al EXCEPT !.segments[p[1] + 1].arr[p[2]] = v]

\* ArrayList.Clear
ListClear(al) == [al EXCEPT !.segments = << >>, !.count = 0, !.segmentIdx = 0]

\* ArrayList.Add(v): Alloc, then *ptr = v
ListAdd(al, v) ==
    LET r == ListAlloc(al)
    IN  [al |-> Store(r.al, r.ptr, v), ptr |-> r.ptr]

\* Mutant of ListRemoveLast: the segment after the emptied one is not dropped.
ListRemoveLast_KeepTrailing(al) ==
    IF al.count <= 0 THEN [al |-> al, panic |-> FALSE]
    ELSE IF al.segmentIdx < 0 \/ al.segmentIdx >= Len(al.segments)
    THEN [al |-> al, panic |-> TRUE]
    ELSE
    LET k  == al.segmentIdx
        c  == SegAt(al, k).count - 1
        a1 == [al EXCEPT !.segments[k + 1].count = c, !.count = al.count - 1]
        a2 == IF k > 0 THEN [a1 EXCEPT !.segmentIdx = k - 1] ELSE a1
    IN  IF c > 0 THEN [al |-> a1, panic |-> FALSE]
        ELSE [al |-> a2, panic |-> FALSE]

\* Mutant of ListRemoveLast: the cursor stays on the emptied segment.
ListRemoveLast_CursorStays(al) ==
    IF al.count <= 0 THEN [al |-> al, panic |-> FALSE]
    ELSE IF al.segmentIdx < 0 \/ al.segmentIdx >= Len(al.segments)
    THEN [al |-> al, panic |-> TRUE]
    ELSE
    LET k  == al.segmentIdx
        c  == SegAt(al, k).count - 1
        a1 == [al EXCEPT !.segments[k + 1].count = c, !.count = al.count - 1]
    IN  IF c > 0 \/ Len(a1.segments) - 1 = k THEN [al |-> a1, panic |-> FALSE]
        ELSE [al |-> [a1 EXCEPT !.segments = SubSeq(a1.segments, 1, k + 1)],
              panic |-> FALSE]

\* ArrayList.RemoveLast: the list after the call, and whether indexing
\* al.segments[al.segmentIdx] panicked.
ListRemoveLast(al) ==
    IF al.count <= 0 THEN [al |-> al, panic |-> FALSE]
    ELSE IF al.segmentIdx < 0 \/ al.segmentIdx >= Len(al.segments)
    THEN [al |-> al, panic |-> TRUE]
    ELSE
    LET k  == al.segmentIdx
        c  == SegAt(al, k).count - 1
        a1 == [al EXCEPT !.segments[k + 1].count = c, !.count = al.count - 1]
        lastEmpty == k
        a2 == IF k > 0 THEN [a1 EXCEPT !.segmentIdx = k - 1] ELSE a1
    IN  IF c > 0 THEN [al |-> a1, panic |-> FALSE]
        ELSE IF Len(a1.segments) - 1 = lastEmpty THEN [al |-> a2, panic |-> FALSE]
        ELSE [al |-> [a2 EXCEPT !.segments = SubSeq(a2.segments, 1, lastEmpty + 1)],
              panic |-> FALSE]

\* Mutant of ListFastRemoveAt: the last slot is not reset.
ListFastRemoveAt_NoReset(al, idx) ==
    IF GetPanics(al, al.count - 1) \/ GetPanics(al, idx)
    THEN [al |-> al, panic |-> TRUE]
    ELSE LET lastPtr == RefOf(al, al.count - 1)
             a1 == Store(al, RefOf(al, idx), Deref(al, lastPtr))
         IN  ListRemoveLast(a1)

\* ArrayList.FastRemoveAt(idx): the list after the call, and whether one of
\* its two GetRef calls panicked (both are made before anything is written).
ListFastRemoveAt(al, idx) ==
    IF GetPanics(al, al.count - 1) \/ GetPanics(al, idx)
    THEN [al |-> al, panic |-> TRUE]
    ELSE LET lastPtr == RefOf(al, al.count - 1)
             a1 == Store(al, RefOf(al, idx), Deref(al, lastPtr))
             a2 == Store(a1, lastPtr, al.defaultValue)
         IN  ListRemoveLast(a2)

\* --------------------------------------------------------------------- Pool
\* What a call leaves in ret.
Ret(op, id, ptr, panic) ==
    [op |-> op, id |-> id, ptr |-> ptr, panic |-> panic, wasLive |-> id \in live]

\* The history after index id is handed out holding value v / is released.
Handed(id, v) ==
    /\ live' = live \cup {id}
    /\ written' = [i \in live \cup {id} |-> IF i = id THEN v ELSE written[i]]

Released(id) ==
    /\ live' = live \ {id}
    /\ written' = [i \in live \ {id} |-> written[i]]

\* NewPool(segmentSize)
NewPool(segmentSize) ==
    /\ frees = {}
    /\ items = NewArrayList(segmentSize)
    /\ live = {}
    /\ written = << >>
    /\ ret = Ret("NewPool", segmentSize, NoPtr, FALSE)

\* Pool.Count
PoolCount == ListCount(items) - Cardinality(frees)

\* Mutant of PoolAllocReuse: the key is not deleted from the map.
PoolAllocReuse_NoDelete(k) ==
    /\ UNCHANGED <<frees, items>>
    /\ IF GetPanics(items, k)
       THEN /\ ret' = Ret("Alloc", k, NoPtr, TRUE)
            /\ UNCHANGED <<live, written>>
       ELSE /\ ret' = Ret("Alloc", k, RefOf(items, k), FALSE)
            /\ Handed(k, ListGet(items, k))

\* Pool.Alloc, free set non-empty: the range over the map yields some key k.
PoolAllocReuse(k) ==
    /\ frees' = frees \ {k}
    /\ UNCHANGED items
    /\ IF GetPanics(items, k)
       THEN /\ ret' = Ret("Alloc", k, NoPtr, TRUE)
            /\ UNCHANGED <<live, written>>
       ELSE /\ ret' = Ret("Alloc", k, RefOf(items, k), FALSE)
            /\ Handed(k, ListGet(items, k))

\* Pool.Alloc, free set empty: return p.items.Count(), p.items.Alloc()
PoolAllocFresh ==
    LET id == ListCount(items)
        r  == ListAlloc(items)
    IN  /\ items' = r.al
        /\ UNCHANGED frees
        /\ ret' = Ret("Alloc", id, r.ptr, FALSE)
        /\ Handed(id, Deref(r.al, r.ptr))

\* Mutant of PoolAlloc: the free set is not consulted.
PoolAlloc_AlwaysFresh == PoolAllocFresh

\* Mutant of PoolAlloc: a single freed index is not reused.
PoolAlloc_NotTheLastFree ==
    IF Cardinality(frees) > 1
    THEN \E k \in frees : PoolAllocReuse(k)
    ELSE PoolAllocFresh

\* Pool.Alloc
PoolAlloc ==
    IF Cardinality(frees) > 0
    THEN \E k \in frees : PoolAllocReuse(k)
    ELSE PoolAllocFresh

\* Mutant of PoolFree: the range check is missing.
PoolFree_NoRangeCheck(id) ==
    IF id \in frees
    THEN /\ ret' = Ret("Free", id, NoPtr, FALSE)
         /\ UNCHANGED <<frees, items, live, written>>
    ELSE IF GetPanics(items, id)
    THEN /\ ret' = Ret("Free", id, NoPtr, TRUE)
         /\ UNCHANGED <<frees, items, live, written>>
    ELSE /\ items' = Store(items, RefOf(items, id), items.defaultValue)
         /\ frees' = frees \cup {id}
         /\ ret' = Ret("Free", id, NoPtr, FALSE)
         /\ Released(id)

\* Mutant of PoolFree: the slot is not reset to the default value.
PoolFree_NoReset(id) ==
    IF id < 0 \/ id >= ListCount(items) \/ id \in frees
    THEN /\ ret' = Ret("Free", id, NoPtr, FALSE)
         /\ UNCHANGED <<frees, items, live, written>>
    ELSE /\ UNCHANGED items
         /\ frees' = frees \cup {id}
         /\ ret' = Ret("Free", id, NoPtr, FALSE)
         /\ Released(id)

\* Pool.Free(id)
PoolFree(id) ==
    IF id < 0 \/ id >= ListCount(items)
    THEN /\ ret' = Ret("Free", id, NoPtr, FALSE)
         /\ UNCHANGED <<frees, items, live, written>>
    ELSE IF id \in frees
    THEN /\ ret' = Ret("Free", id, NoPtr, FALSE)
         /\ UNCHANGED <<frees, items, live, written>>
    ELSE IF GetPanics(items, id)
    THEN /\ ret' = Ret("Free", id, NoPtr, TRUE)
         /\ UNCHANGED <<frees, items, live, written>>
    ELSE /\ items' = Store(items, RefOf(items, id), items.defaultValue)
         /\ frees' = frees \cup {id}
         /\ ret' = Ret("Free", id, NoPtr, FALSE)
         /\ Released(id)

\* Mutant of PoolClear: the map of freed indices is kept.
PoolClear_KeepFrees ==
    /\ UNCHANGED frees
    /\ items' = ListClear(items)
    /\ live' = {}
    /\ written' = << >>
    /\ ret' = Ret("Clear", 0, NoPtr, FALSE)

\* Pool.Clear
PoolClear ==
    /\ frees' = {}
    /\ items' = ListClear(items)
    /\ live' = {}
    /\ written' = << >>
    /\ ret' = Ret("Clear", 0, NoPtr, FALSE)

\* p.items.GetRef(id) on a live index: the caller borrows a reference.
PoolGetRef(id) ==
    /\ id \in live
    /\ ret' = IF GetPanics(items, id) THEN Ret("GetRef", id, NoPtr, TRUE)
              ELSE Ret("GetRef", id, RefOf(items, id), FALSE)
    /\ UNCHANGED <<frees, items, live, written>>

\* *ptr = v through the reference the last Alloc or GetRef returned for a
\* live index (the reference is used before the next call on the pool).
PoolWrite(v) ==
    /\ ret.op \in {"Alloc", "GetRef"}
    /\ ~ret.panic
    /\ ret.id \in live
    /\ InStorage(items, ret.ptr)
    /\ items' = Store(items, ret.ptr, v)
    /\ written' = [written EXCEPT ![ret.id] = v]
    /\ ret' = Ret("Write", ret.id, NoPtr, FALSE)
    /\ UNCHANGED <<frees, live>>

\* ---------------------------------------------------------------- ArrayPool
\* len(a) of an array a
ALen(a) == Cardinality(DOMAIN a)

\* make([]T, n)
MakeArr(n) == [i \in 0..(n - 1) |-> ZeroValue]

APRet(op, id, panic) ==
    [op |-> op, id |-> id, panic |-> panic, wasLive |-> id \in apLive]

\* The values a caller stores in ArrayPool slots.  The pool moves values only
\* by copying whole slots, so the zero value and one other value show every
\* way a slot can be lost, overwritten or left unreset.
APVals == {ZeroValue, ZeroValue + 1}

\* Mutant of NewArrayPool: the allocation pointer starts at the sentinel.
NewArrayPool_FromZero(cap) ==
    /\ arr = MakeArr(cap + 1)
    /\ alloc = 0
    /\ free = {}
    /\ apLive = {}
    /\ apWritten = << >>
    /\ apCap = cap
    /\ apRet = APRet("NewArrayPool", 0, FALSE)

\* NewArrayPool(cap), cap >= 0
NewArrayPool(cap) ==
    /\ arr = MakeArr(cap + 1)
    /\ alloc = 1
    /\ free = {}
    /\ apLive = {}
    /\ apWritten = << >>
    /\ apCap = cap
    /\ apRet = APRet("NewArrayPool", 0, FALSE)

\* ArrayPool.nextCap
NextCap(oldCap) ==
    LET doubleCap == oldCap + oldCap
    IN  IF oldCap < Threshold THEN doubleCap
        ELSE oldCap + Shr(oldCap + 3 * Threshold, 2)

\* Mutant of Grow: the old elements are not copied.
Grow_NoCopy(a) == MakeArr(NextCap(ALen(a)))

\* ArrayPool.grow: the new array, the old elements copied into it.
Grow(a) ==
    LET newArray == MakeArr(NextCap(ALen(a)))
    IN  [i \in DOMAIN newArray |-> IF i \in DOMAIN a THEN a[i] ELSE newArray[i]]

RECURSIVE Growths(_, _, _)
\* How often Alloc grows array a before it returns: it grows and calls itself
\* while alloc is not below len(a) and the free set is empty.
Growths(a, al, fr) ==
    IF al < ALen(a) \/ Cardinality(fr) > 0 THEN 0
    ELSE 1 + Growths(Grow(a), al, fr)

RECURSIVE Grown(_, _)
\* Array a after n calls of grow
Grown(a, n) == IF n = 0 THEN a ELSE Grown(Grow(a), n - 1)

\* Mutant of APAlloc: a full array is grown without a look at the free set.
APAlloc_GrowWhenFull ==
    LET a == IF alloc < ALen(arr) THEN arr ELSE Grow(arr)
    IN  /\ arr' = a
        /\ alloc' = alloc + 1
        /\ UNCHANGED <<free, apCap>>
        /\ apLive' = apLive \cup {alloc}
        /\ apWritten' = [i \in apLive \cup {alloc} |->
                            IF i = alloc THEN a[alloc] ELSE apWritten[i]]
        /\ apRet' = APRet("Alloc", alloc, FALSE)

\* Mutant of APAlloc: a freed id is taken before a fresh one.
APAlloc_FreeFirst ==
    IF free # {}
    THEN \E k \in free :
             /\ free' = free \ {k}
             /\ UNCHANGED <<arr, alloc, apCap>>
             /\ apLive' = apLive \cup {k}
             /\ apWritten' = [i \in apLive \cup {k} |->
                                 IF i = k /\ k \notin apLive THEN arr[k] ELSE apWritten[i]]
             /\ apRet' = APRet("Alloc", k, FALSE)
    ELSE LET a == Grown(arr, Growths(arr, alloc, free))
         IN  /\ arr' = a
             /\ alloc' = alloc + 1
             /\ UNCHANGED <<free, apCap>>
             /\ apLive' = apLive \cup {alloc}
             /\ apWritten' = [i \in apLive \cup {alloc} |->
                                 IF i = alloc THEN a[alloc] ELSE apWritten[i]]
             /\ apRet' = APRet("Alloc", alloc, FALSE)

\* ArrayPool.Alloc
APAlloc ==
    LET n == Growths(arr, alloc, free)
        a == Grown(arr, n)
    IN  IF alloc < ALen(a)
        THEN /\ arr' = a
             /\ alloc' = alloc + 1
             /\ UNCHANGED free
             /\ apLive' = apLive \cup {alloc}
             /\ apWritten' = [i \in apLive \cup {alloc} |->
                                 IF i = alloc THEN a[alloc] ELSE apWritten[i]]
             /\ apRet' = APRet("Alloc", alloc, FALSE)
             /\ UNCHANGED apCap
        ELSE \E k \in free :
             /\ free' = free \ {k}
             /\ UNCHANGED <<arr, alloc, apCap>>
             /\ apLive' = apLive \cup {k}
             /\ apWritten' = [i \in apLive \cup {k} |->
                                 IF i = k /\ k \notin apLive THEN arr[k] ELSE apWritten[i]]
             /\ apRet' = APRet("Alloc", k, FALSE)

\* What ArrayPool.Free(id) does to the histories when it does not panic.
APFreed(id) ==
    /\ apLive' = apLive \ {id}
    /\ apWritten' = [i \in apLive \ {id} |-> apWritten[i]]
    /\ apRet' = APRet("Free", id, FALSE)
    /\ UNCHANGED apCap

\* Mutant of APFree: the check lets id 0 through (id < 0 for id <= 0).
APFree_ZeroAllowed(id) ==
    IF id < 0 \/ id >= alloc \/ id \notin DOMAIN arr
    THEN /\ apRet' = APRet("Free", 0, TRUE)
         /\ UNCHANGED <<arr, alloc, free, apLive, apWritten, apCap>>
    ELSE /\ arr' = [arr EXCEPT ![id] = arr[0]]
         /\ IF id = alloc - 1
            THEN alloc' = alloc - 1 /\ UNCHANGED free
            ELSE free' = free \cup {id} /\ UNCHANGED alloc
         /\ APFreed(id)

\* Mutant of APFree: the fast path does not return, and falls through to
\* the insertion into the free set.
APFree_NoReturn(id) ==
    IF id <= 0 \/ id >= alloc \/ id \notin DOMAIN arr
    THEN /\ apRet' = APRet("Free", 0, TRUE)
         /\ UNCHANGED <<arr, alloc, free, apLive, apWritten, apCap>>
    ELSE /\ arr' = [arr EXCEPT ![id] = arr[0]]
         /\ alloc' = IF id = alloc - 1 THEN alloc - 1 ELSE alloc
         /\ free' = free \cup {id}
         /\ APFreed(id)

\* ArrayPool.Free(id)
APFree(id) ==
    IF id <= 0 \/ id >= alloc \/ id \notin DOMAIN arr
    THEN /\ apRet' = APRet("Free", 0, TRUE)
         /\ UNCHANGED <<arr, alloc, free, apLive, apWritten, apCap>>
    ELSE /\ arr' = [arr EXCEPT ![id] = arr[0]]
         /\ IF id = alloc - 1
            THEN alloc' = alloc - 1 /\ UNCHANGED free
            ELSE free' = free \cup {id} /\ UNCHANGED alloc
         /\ APFreed(id)

\* ArrayPool.Get(id), for id within the array
APGet(id) == arr[id]

\* *ap.GetRef(id) = v on a live id
APWrite(id, v) ==
    /\ id \in apLive
    /\ id \in DOMAIN arr
    /\ arr' = [arr EXCEPT ![id] = v]
    /\ apWritten' = [apWritten EXCEPT ![id] = v]
    /\ apRet' = APRet("Write", 0, FALSE)
    /\ UNCHANGED <<alloc, free, apLive, apCap>>

\* Ids a caller hands to Pool.Free: one below and one past the valid range.
FreeIds == (0 - 1)..MaxItems

\* No round trip is being followed.
RTIdle == [phase |-> "setup", first |-> {}, second |-> {}, calls |-> 0, count |-> 0]

\* No script is being run.
NoScript == [allocs |-> 0, calls |-> 0]

\* What a call on the list leaves in lret.
LRet(op, idx, ptr, panic) == [op |-> op, idx |-> idx, ptr |-> ptr, panic |-> panic]

\* NewArrayList(segmentSize)
NewList(segmentSize) ==
    /\ list = NewArrayList(segmentSize)
    /\ lret = LRet("NewArrayList", 0, NoPtr, FALSE)
    /\ appended = [only |-> TRUE, vals |-> << >>]

\* The pool under check is built by its constructor; the other one is idle.
Init ==
    /\ \E segmentSize \in 0..MaxSegArg : NewPool(segmentSize)
    /\ NewArrayPool(0)
    /\ rt = RTIdle
    /\ pc = NoScript
    /\ NewList(1)

\* Calls made in any order (no script is being run).
Alloc ==
    /\ pc = NoScript
    /\ Cardinality(frees) = 0 => ListCount(items) < MaxItems
    /\ PoolAlloc
    /\ UNCHANGED <<apVars, rt, pc, listVars>>
Free ==
    /\ pc = NoScript
    /\ \E id \in FreeIds : PoolFree(id)
    /\ UNCHANGED <<apVars, rt, pc, listVars>>
Clear ==
    /\ pc = NoScript
    /\ PoolClear
    /\ UNCHANGED <<apVars, rt, pc, listVars>>
GetRef ==
    /\ pc = NoScript
    /\ \E id \in 0..(MaxItems - 1) : PoolGetRef(id)
    /\ UNCHANGED <<apVars, rt, pc, listVars>>
Write ==
    /\ pc = NoScript
    /\ \E v \in Vals : PoolWrite(v)
    /\ UNCHANGED <<apVars, rt, pc, listVars>>

Next == Alloc \/ Free \/ Clear \/ GetRef \/ Write

Spec == Init /\ [][Next]_vars

\* The run of TestPool up to its first Alloc after the Frees: NewPool(3), the
\* Allocs (each followed by a write through the pointer), the nine Frees,
\* one Alloc and its write.  TestPool makes 2 + 32 Allocs, so that its
\* Free(34) is out of range; the run is also made with one Alloc more (ids
\* 0..34), where all nine Frees take effect.
TestSegmentSize == 3
TestAllocs == 2 + 32
TestFrees == <<0, 4, 34, 27, 3, 16, 11, 12, 8>>

TestInit ==
    /\ NewPool(TestSegmentSize)
    /\ NewArrayPool(0)
    /\ rt = RTIdle
    /\ \E n \in {TestAllocs, TestAllocs + 1} : pc = [allocs |-> n, calls |-> 0]
    /\ NewList(1)

TestAlloc ==
    /\ pc.calls < pc.allocs
    /\ ret.op # "Alloc"
    /\ PoolAlloc
    /\ pc' = [pc EXCEPT !.calls = pc.calls + 1]
    /\ UNCHANGED <<apVars, rt, listVars>>

\* ptr.Val = 1, 2, i + 3: the number of the Alloc; after the Frees,
\* rand.Int() % 10000: some value.
TestWrite ==
    /\ pc # NoScript
    /\ ret.op = "Alloc"
    /\ IF pc.calls <= pc.allocs
       THEN PoolWrite(pc.calls)
       ELSE \E v \in Vals : PoolWrite(v)
    /\ UNCHANGED <<apVars, rt, pc, listVars>>

TestFree ==
    /\ pc # NoScript
    /\ pc.calls >= pc.allocs
    /\ pc.calls < pc.allocs + Len(TestFrees)
    /\ ret.op # "Alloc"
    /\ PoolFree(TestFrees[pc.calls - pc.allocs + 1])
    /\ pc' = [pc EXCEPT !.calls = pc.calls + 1]
    /\ UNCHANGED <<apVars, rt, listVars>>

TestReuse ==
    /\ pc # NoScript
    /\ pc.calls = pc.allocs + Len(TestFrees)
    /\ PoolAlloc
    /\ pc' = [pc EXCEPT !.calls = pc.calls + 1]
    /\ UNCHANGED <<apVars, rt, listVars>>

TestNext == TestAlloc \/ TestWrite \/ TestFree \/ TestReuse

\* The segmented pool under calls in any order, and under the test's script.
PoolTestInit == Init \/ TestInit

PoolTestNext == Next \/ TestNext

SpecPoolTest == PoolTestInit /\ [][PoolTestNext]_vars

\* The contiguous pool on its own.
\* Ids a caller hands to ArrayPool.Free and writes through.
APIds == (0 - 1)..(MaxId + 1)

APInit ==
    /\ NewPool(1)
    /\ \E cap \in 0..MaxCap : NewArrayPool(cap)
    /\ rt = RTIdle
    /\ pc = NoScript
    /\ NewList(1)

APAllocStep ==
    /\ alloc <= MaxId \/ (alloc >= ALen(arr) /\ Cardinality(free) > 0)
    /\ APAlloc
    /\ UNCHANGED <<poolVars, rt, pc, listVars>>
APFreeStep == \E id \in APIds : APFree(id) /\ UNCHANGED <<poolVars, rt, pc, listVars>>
APWriteStep ==
    \E id \in APIds, v \in APVals : APWrite(id, v) /\ UNCHANGED <<poolVars, rt, pc, listVars>>

APNext == APAllocStep \/ APFreeStep \/ APWriteStep

SpecArrayPool == APInit /\ [][APNext]_vars

\* The contiguous pool under correct use: Free is only called on a live id.
APFreeLiveStep == \E id \in apLive : APFree(id) /\ UNCHANGED <<poolVars, rt, pc, listVars>>

APNextCorrect == APAllocStep \/ APFreeLiveStep \/ APWriteStep

SpecArrayPoolCorrect == APInit /\ [][APNextCorrect]_vars

\* The reuse round trip on the segmented pool: any calls that leave the free
\* set empty (setup), then N Allocs (first), then a Free of each of the N
\* indices in any order (free), then N Allocs again (second, then done).
\* The values in the slots play no part in which index a call returns, so
\* this specification makes no writes.
RTSetupAlloc ==
    /\ rt.phase = "setup"
    /\ Alloc

RTSetupFree ==
    /\ rt.phase = "setup"
    /\ Free

RTSetupClear ==
    /\ rt.phase = "setup"
    /\ Clear

RTFirstAlloc ==
    /\ rt.phase \in {"setup", "first"}
    /\ Cardinality(frees) = 0
    /\ ListCount(items) < MaxItems
    /\ PoolAlloc
    /\ rt' = [rt EXCEPT !.phase = "first", !.first = rt.first \cup {ret'.id},
                         !.count = ListCount(items')]
    /\ UNCHANGED <<apVars, pc, listVars>>

RTFree ==
    /\ rt.phase \in {"first", "free"}
    /\ \E id \in rt.first \cap live : PoolFree(id)
    /\ rt' = [rt EXCEPT !.phase = "free"]
    /\ UNCHANGED <<apVars, pc, listVars>>

RTSecondAlloc ==
    /\ rt.phase \in {"free", "second"}
    /\ rt.first \cap live = {} \/ rt.phase = "second"
    /\ rt.calls < Cardinality(rt.first)
    /\ PoolAlloc
    /\ rt' = [rt EXCEPT !.phase = IF rt.calls + 1 = Cardinality(rt.first)
                                  THEN "done" ELSE "second",
                         !.second = rt.second \cup {ret'.id},
                         !.calls = rt.calls + 1]
    /\ UNCHANGED <<apVars, pc, listVars>>

RTNext ==
    \/ RTSetupAlloc \/ RTSetupFree \/ RTSetupClear
    \/ RTFirstAlloc \/ RTFree \/ RTSecondAlloc

SpecReuse == Init /\ [][RTNext]_vars

\* The reuse round trip on a freshly created contiguous pool: N Allocs
\* (first), then a Free of each of the N ids in any order (free), then N
\* Allocs again (second, then done).
ARFirstAlloc ==
    /\ rt.phase \in {"setup", "first"}
    /\ alloc <= MaxId
    /\ APAlloc
    /\ rt' = [rt EXCEPT !.phase = "first", !.first = rt.first \cup {apRet'.id}]
    /\ UNCHANGED <<poolVars, pc, listVars>>

ARFree ==
    /\ rt.phase \in {"first", "free"}
    /\ \E id \in rt.first \cap apLive : APFree(id)
    /\ rt' = [rt EXCEPT !.phase = "free", !.count = alloc']
    /\ UNCHANGED <<poolVars, pc, listVars>>

ARSecondAlloc ==
    /\ rt.phase \in {"free", "second"}
    /\ rt.first \cap apLive = {} \/ rt.phase = "second"
    /\ rt.calls < Cardinality(rt.first)
    /\ APAlloc
    /\ rt' = [rt EXCEPT !.phase = IF rt.calls + 1 = Cardinality(rt.first)
                                  THEN "done" ELSE "second",
                         !.second = rt.second \cup {apRet'.id},
                         !.calls = rt.calls + 1]
    /\ UNCHANGED <<poolVars, pc, listVars>>

ARNext == ARFirstAlloc \/ ARFree \/ ARSecondAlloc

SpecArrayPoolReuse == APInit /\ [][ARNext]_vars

\* The segmented list on its own.
\* Values a caller adds to the list.
ListVals == {ZeroValue, ZeroValue + 1}
\* Indices a caller hands to Get, GetRef and FastRemoveAt: from one below the
\* valid range to at least one past it.
ListIdxs == (0 - 1)..MaxCount

LInit ==
    /\ NewPool(1)
    /\ NewArrayPool(0)
    /\ rt = RTIdle
    /\ pc = NoScript
    /\ \E segmentSize \in 1..MaxSegArg : NewList(segmentSize)

\* The history after value v is appended / after any other mutating call.
Appended(v) ==
    appended' = IF appended.only
                THEN [appended EXCEPT !.vals = Append(appended.vals, v)]
                ELSE appended

NotAppendOnly == appended' = [only |-> FALSE, vals |-> << >>]

LAdd ==
    /\ ListCount(list) < MaxCount
    /\ \E v \in ListVals :
           LET r == ListAdd(list, v)
           IN  /\ list' = r.al
               /\ lret' = LRet("Add", 0, r.ptr, FALSE)
               /\ Appended(v)
    /\ UNCHANGED <<poolVars, apVars, rt, pc>>

LAlloc ==
    /\ ListCount(list) < MaxCount
    /\ LET r == ListAlloc(list)
       IN  /\ list' = r.al
           /\ lret' = LRet("Alloc", 0, r.ptr, FALSE)
           /\ Appended(Deref(r.al, r.ptr))
    /\ UNCHANGED <<poolVars, apVars, rt, pc>>

LRemoveLast ==
    /\ LET r == ListRemoveLast(list)
       IN  /\ list' = r.al
           /\ lret' = LRet("RemoveLast", 0, NoPtr, r.panic)
    /\ NotAppendOnly
    /\ UNCHANGED <<poolVars, apVars, rt, pc>>

LFastRemoveAt ==
    /\ \E idx \in ListIdxs :
           LET r == ListFastRemoveAt(list, idx)
           IN  /\ list' = r.al
               /\ lret' = LRet("FastRemoveAt", idx, NoPtr, r.panic)
    /\ NotAppendOnly
    /\ UNCHANGED <<poolVars, apVars, rt, pc>>

LClear ==
    /\ list' = ListClear(list)
    /\ lret' = LRet("Clear", 0, NoPtr, FALSE)
    /\ NotAppendOnly
    /\ UNCHANGED <<poolVars, apVars, rt, pc>>

\* Get(idx) / GetRef(idx): the call panics or returns the slot.
LGet ==
    /\ \E idx \in ListIdxs :
           lret' = IF GetPanics(list, idx) THEN LRet("Get", idx, NoPtr, TRUE)
                   ELSE LRet("Get", idx, RefOf(list, idx), FALSE)
    /\ UNCHANGED <<list, appended>>
    /\ UNCHANGED <<poolVars, apVars, rt, pc>>

LNext == LAdd \/ LAlloc \/ LRemoveLast \/ LFastRemoveAt \/ LClear \/ LGet

SpecList == LInit /\ [][LNext]_vars

\* =================================================================== claims
\* --------------------------------------------------------------- C1 (Spec)
\* C1: Pool.Alloc never returns an index that is live at the call, and no
\* index is live and in the free set at the same time.
C1_AllocNeverReturnsLive ==
    /\ live \cap frees = {}
    /\ (ret.op = "Alloc" /\ ~ret.panic) => ~ret.wasLive

\* Alloc has just reused a freed index while other indices are live and
\* another index is still free.
C1_Witness ==
    /\ ret.op = "Alloc" /\ ~ret.panic
    /\ ret.id < ListCount(items) - 1
    /\ Cardinality(live) >= 2
    /\ frees # {}

\* ------------------------------------------------- C2 (SpecArrayPoolCorrect)
\* C2: when Free is only ever called on live ids, every index i with
\* 0 < i < alloc is exactly one of live or in the free set, and Alloc never
\* returns an id that is live at the call.
C2_LiveXorFree ==
    /\ \A i \in 1..(alloc - 1) : (i \in apLive) # (i \in free)
    /\ apRet.op = "Alloc" => ~apRet.wasLive

\* Alloc has just reused an id from the free set, with other ids live and
\* another id still free.
C2_Witness ==
    /\ apRet.op = "Alloc"
    /\ apRet.id < alloc - 1
    /\ alloc = ALen(arr)
    /\ free # {}
    /\ Cardinality(apLive) >= 2

\* --------------------------------------------------------------- C3 (Spec)
\* C3: the reference Pool.Alloc returns with index i is the slot
\* items.GetRef(i), and reading the slot of a live index gives the last value
\* written to it, whatever Alloc and Free calls were made on other indices.
C3_LiveSlotKeepsValue ==
    /\ (ret.op = "Alloc" /\ ~ret.panic) =>
           (~GetPanics(items, ret.id) /\ ret.ptr = RefOf(items, ret.id))
    /\ \A i \in live : ~GetPanics(items, i) /\ ListGet(items, i) = written[i]

\* Another index has just been freed while a live index in the second
\* segment holds a non-default value.
C3_Witness ==
    /\ ret.op = "Free" /\ ret.wasLive
    /\ \E i \in live : /\ written[i] # ZeroValue
                        /\ RefOf(items, i)[1] >= 1
                        /\ ListGet(items, i) = written[i]

\* ------------------------------------------------------ C4 (SpecArrayPool)
\* Growing the array keeps every element and makes the array longer.
GrowKeeps ==
    LET g == Grow(arr)
    IN  ALen(g) > ALen(arr) /\ \A i \in DOMAIN arr : g[i] = arr[i]

\* An Alloc step that grows returns the allocation pointer it found, leaves
\* the free set alone and keeps the value of every index below alloc.
GrowingAllocKeeps ==
    (apRet'.op = "Alloc" /\ ALen(arr') # ALen(arr)) =>
        /\ apRet'.id = alloc /\ alloc' = alloc + 1
        /\ free' = free
        /\ \A i \in 0..(alloc - 1) : arr'[i] = arr[i]

\* For NewArrayPool(4), before any growth: Alloc grows exactly when four
\* ids are out (alloc = 5) and the free set is empty.
FifthAllocGrows ==
    (apRet'.op = "Alloc" /\ apCap = 4 /\ ALen(arr) = 5) =>
        ((ALen(arr') # ALen(arr)) <=> (alloc = 5 /\ free = {}))

\* C4: for NewArrayPool(4) the first four Allocs do not grow and the fifth
\* (free set empty) does; a growth leaves alloc and the free set as they were
\* and keeps every value below alloc; Get(id) on a live id is the last value
\* written to it.
C4_ValuesSurviveGrowth ==
    /\ [](\A id \in apLive : id \in DOMAIN arr /\ APGet(id) = apWritten[id])
    /\ []GrowKeeps
    /\ [][GrowingAllocKeeps /\ FifthAllocGrows]_vars

\* NewArrayPool(4) after its fifth Alloc: the array has grown from 5 to 10,
\* five ids are live and the first still holds the value written before.
C4_Witness ==
    /\ apCap = 4 /\ ALen(arr) = 10 /\ alloc = 6
    /\ apRet.op = "Alloc" /\ apRet.id = 5
    /\ apLive = 1..5
    /\ apWritten[1] # ZeroValue /\ APGet(1) = apWritten[1]

\* --------------------------------------------------------------- C5 (Spec)
\* The ids that are not live are those Free ignores.
NotLiveIsIgnored ==
    \A id \in FreeIds :
        (id \notin live) <=> (id < 0 \/ id >= ListCount(items) \/ id \in frees)

\* A Free step on an id that is not live returns and changes nothing.
FreeNotLiveStep ==
    (ret'.op = "Free" /\ ret'.id \notin live) =>
        (UNCHANGED <<frees, items>> /\ ~ret'.panic)

\* A Free(id) step right after a Free(id) changes nothing.
SecondFreeStep ==
    (ret.op = "Free" /\ ret'.op = "Free" /\ ret'.id = ret.id) =>
        UNCHANGED <<frees, items>>

\* C5: Pool.Free(id) on an id that is not live (id < 0, id >= items.Count(),
\* or id in the free set) returns without changing the free set, the list or
\* any slot; so does a second Free(id) right after a first.
C5_FreeNotLiveIsNoop ==
    /\ []NotLiveIsIgnored
    /\ [][FreeNotLiveStep /\ SecondFreeStep]_vars

\* Free has just been called on an index that was already in the free set,
\* while other indices are live.
C5_Witness ==
    /\ ret.op = "Free" /\ ~ret.wasLive /\ ~ret.panic
    /\ ret.id \in frees
    /\ live # {}

\* ------------------------------------------------------ C6 (SpecArrayPool)
\* C6 (for an id held in the free set): ArrayPool.Free(id) on an id that is
\* already free, being in the free set and not live, does not panic and
\* leaves alloc, the free set and every slot as they were.
C6_DoubleFreeIdempotent ==
    [][\A id \in APIds :
          (id \in free /\ id \notin apLive /\ APFree(id)) =>
              (~apRet'.panic /\ UNCHANGED <<arr, alloc, free>>)]_vars

\* ------------------------------------------------------ C7 (SpecArrayPool)
\* C7: ArrayPool.Free(id) panics exactly when id <= 0 or id >= alloc, and a
\* panicking Free leaves the array, alloc and the free set unchanged.
C7_InvalidFreePanics ==
    [][\A id \in APIds :
          APFree(id) =>
              IF id <= 0 \/ id >= alloc
              THEN apRet'.panic /\ UNCHANGED <<arr, alloc, free>>
              ELSE ~apRet'.panic]_vars

\* A Free has just panicked on a pool with live ids and a non-empty free set.
C7_Witness ==
    /\ apRet.op = "Free" /\ apRet.panic
    /\ apLive # {} /\ free # {}
    /\ \E i \in apLive : arr[i] # ZeroValue

\* --------------------------------------------------------------- C8 (Spec)
\* C8: right after Pool.Free(id) on a live id the slot at id holds the
\* default value; every index in the free set holds the default value; the
\* slot Pool.Alloc returns holds the default value.
C8_ResetOnFree ==
    /\ \A i \in frees : ~GetPanics(items, i) /\ ListGet(items, i) = items.defaultValue
    /\ (ret.op = "Free" /\ ret.wasLive /\ ~ret.panic) =>
           (~GetPanics(items, ret.id) /\ ListGet(items, ret.id) = items.defaultValue)
    /\ (ret.op = "Alloc" /\ ~ret.panic) =>
           (InStorage(items, ret.ptr) /\ Deref(items, ret.ptr) = items.defaultValue)

\* Alloc has just handed out a reused index, holding the default value,
\* while a live index holds a non-default value.
C8_Witness ==
    /\ ret.op = "Alloc" /\ ~ret.panic
    /\ ret.id # ListCount(items) - 1
    /\ Deref(items, ret.ptr) = items.defaultValue
    /\ \E i \in live : written[i] # ZeroValue

\* ------------------------------------------------------ C9 (SpecArrayPool)
\* C9: alloc >= 1, 0 is never in the free set, Alloc only returns ids >= 1,
\* slot 0 holds the zero value, and right after a Free(id) that returned,
\* slot id holds the zero value.
C9_Sentinel ==
    /\ alloc >= 1
    /\ 0 \notin free
    /\ apRet.op = "Alloc" => apRet.id >= 1
    /\ arr[0] = ZeroValue
    /\ (apRet.op = "Free" /\ ~apRet.panic) => arr[apRet.id] = ZeroValue

\* A Free has just returned on a pool in which a live id holds a non-zero
\* value and another id is in the free set.
C9_Witness ==
    /\ apRet.op = "Free" /\ ~apRet.panic /\ apRet.wasLive
    /\ apRet.id \in free
    /\ \E i \in apLive : arr[i] # ZeroValue

\* --------------------------------------------------------- C10 (SpecReuse)
\* C10: from a Pool with an empty free set, N Allocs, a Free of each of the
\* N indices in any order, then N Allocs: the second batch returns only
\* indices of the first, and once complete exactly the indices of the first,
\* and items.Count() is what it was when the first batch was complete.
C10_ReuseRoundTrip ==
    /\ rt.phase \in {"second", "done"} =>
           (rt.second \subseteq rt.first /\ ListCount(items) = rt.count)
    /\ rt.phase = "done" => rt.second = rt.first

\* A round trip of three indices is complete on a pool that held another
\* live index before it began.
C10_Witness ==
    /\ rt.phase = "done"
    /\ Cardinality(rt.first) >= 3
    /\ rt.calls = Cardinality(rt.first)
    /\ live \ rt.first # {}

AllocPrefersFreed ==
    ret'.op = "Alloc" =>
        /\ ~ret'.panic
        /\ PoolCount' = PoolCount + 1
        /\ IF frees # {}
           THEN /\ ret'.id \in frees
                /\ frees' = frees \ {ret'.id}
                /\ ListCount(items') = ListCount(items)
           ELSE /\ ret'.id = ListCount(items)
                /\ ListCount(items') = ListCount(items) + 1
                /\ frees' = frees

\* Segment size 3, 35 Allocs, the nine Frees: the next Alloc returns one of
\* the freed ids and Count() is then 35 - 9 + 1.
ReuseAfterNineFrees ==
    (pc.allocs = 35 /\ pc.calls = 35 + 9 + 1 /\ ret.op = "Alloc") =>
        /\ ret.id \in {TestFrees[i] : i \in 1..Len(TestFrees)}
        /\ ret.id # 35
        /\ ListCount(items) = 35
        /\ PoolCount = 35 - 9 + 1

\* C12: whenever the free set is non-empty, Pool.Alloc returns an index that
\* was in the free set, removes it from the free set, leaves items.Count()
\* unchanged and raises Pool.Count() by exactly 1; only when the free set is
\* empty does it return the fresh index equal to the previous items.Count()
\* and extend the list by one.  With segment size 3, 35 allocations and 9
\* frees, the next Alloc returns a freed id and Count() is 35 - 9 + 1.
C12_AllocPreference ==
    /\ []ReuseAfterNineFrees
    /\ [][AllocPrefersFreed]_vars

\* The Alloc after 35 Allocs and the nine Frees has just returned the freed
\* id 27, in the seventh of the nine segments.
C12_Witness ==
    /\ pc.allocs = 35 /\ pc.calls = 45
    /\ ret.op = "Alloc" /\ ret.id = 27 /\ ret.ptr = <<6, 3>>
    /\ items.segmentSize = 4 /\ Len(items.segments) = 9
    /\ Cardinality(frees) = 8 /\ PoolCount = 27

\* -------------------------------------------------------------- C13 (Spec)
\* Every index in the free set is within the list, and Pool.Count() is the
\* number of live handles; right after Clear it is 0.
PoolAccounting ==
    /\ \A i \in frees : 0 <= i /\ i < ListCount(items)
    /\ PoolCount = Cardinality(live)
    /\ ret.op = "Clear" => (PoolCount = 0 /\ ListCount(items) = 0 /\ frees = {})

\* The Alloc that follows a Clear returns index 0.
AllocAfterClear ==
    (ret.op = "Clear" /\ ret'.op = "Alloc") => (ret'.id = 0 /\ ~ret'.panic)

\* C13: after any sequence of Pool.Alloc, Pool.Free and Pool.Clear, every
\* index in the free set is >= 0 and < items.Count(), Pool.Count() =
\* items.Count() - |free set| is the number of live handles, and after Clear
\* Count() is 0 and the next Alloc returns index 0.
C13_PoolAccounting ==
    /\ []PoolAccounting
    /\ [][AllocAfterClear]_vars

\* Clear has just emptied a pool in which index 0 was live.
C13_Witness ==
    /\ ret.op = "Clear" /\ ret.wasLive
    /\ PoolCount = 0 /\ frees = {} /\ live = {}

\* ----------------------------------------------------- C18 (SpecArrayPool)
\* C18: whatever Alloc and Free calls are made, Free calls on ids that are
\* already free included (a Free with id <= 0 or id >= alloc panics and
\* changes nothing), every member of the free set stays below alloc and
\* Alloc never returns an id that is live at the call.
C18_DoubleFreeCannotCorrupt ==
    /\ \A k \in free : k < alloc
    /\ apRet.op = "Alloc" => ~apRet.wasLive

\* ----------------------------------------------------- C19 (SpecArrayPool)
\* The order in which an Alloc step decides: a fresh id while alloc is below
\* len(arr), the free set being what it may; else a member of the free set;
\* else one growth and then the fresh id.
AllocDecision ==
    apRet'.op = "Alloc" =>
        IF alloc < ALen(arr)
        THEN /\ apRet'.id = alloc /\ alloc' = alloc + 1
             /\ UNCHANGED <<arr, free>>
        ELSE IF free # {}
        THEN /\ apRet'.id \in free /\ free' = free \ {apRet'.id}
             /\ UNCHANGED <<arr, alloc>>
        ELSE /\ alloc = ALen(arr)
             /\ arr' = Grow(arr)
             /\ apRet'.id = alloc /\ alloc' = alloc + 1
             /\ UNCHANGED free

\* The array never gets shorter.
NeverShrinks == ALen(arr') >= ALen(arr)

\* Lengths at which nextCap is tried: those around the array in hand and
\* those around the threshold.
NextCapLens == 1..(2 * ALen(arr)) \cup (Threshold - 1)..(Threshold + 1)

\* An Alloc called now grows at most once: the array has at least the
\* sentinel slot and a grown array is strictly longer.
OneGrowthAtMost ==
    /\ ALen(arr) >= 1
    /\ alloc <= ALen(arr)
    /\ \A n \in NextCapLens : NextCap(n) > n
    /\ ALen(Grow(arr)) > ALen(arr)
    /\ Growths(arr, alloc, free) <= 1
    /\ Growths(arr, alloc, free) = 1 <=> (alloc = ALen(arr) /\ free = {})

OccupiedSlots ==
    \A idx \in 0..(MaxCount + 1) :
        IF idx >= ListCount(list)
        THEN GetPanics(list, idx)
        ELSE /\ ~GetPanics(list, idx)
             /\ LET p == RefOf(list, idx)
                IN  /\ p[1] = Shr(idx, list.segmentSizeShift)
                    /\ p[1] * list.segmentSize + p[2] = idx
                    /\ p[2] < list.segmentSize
                    /\ InStorage(list, p)
                    /\ p[2] < SegAt(list, p[1]).count

\* With segment size 4 and 5 elements, index 4 is offset 0 of the second
\* segment.
FifthInSecondSegment ==
    (list.segmentSize = 4 /\ ListCount(list) = 5) => RefOf(list, 4) = <<1, 0>>

\* On a list that was only appended to, the k-th element appended is read
\* at index k-1.
AppendedReadBack ==
    appended.only =>
        /\ Len(appended.vals) = ListCount(list)
        /\ \A k \in 1..Len(appended.vals) :
               ~GetPanics(list, k - 1) /\ ListGet(list, k - 1) = appended.vals[k]

\* A Get or GetRef step leaves the list as it is, panics when idx >= count
\* and returns the slot of idx when 0 <= idx < count.
GetStep ==
    lret'.op = "Get" =>
        /\ list' = list
        /\ lret'.idx >= ListCount(list) => lret'.panic
        /\ (0 <= lret'.idx /\ lret'.idx < ListCount(list)) =>
               (~lret'.panic /\ lret'.ptr = RefOf(list, lret'.idx))

\* C14: in every state reachable by Add/Alloc, RemoveLast, FastRemoveAt and
\* Clear, Get(idx) and GetRef(idx) panic without changing the list when
\* idx >= count; for 0 <= idx < count they return the slot at segment
\* idx >> segmentSizeShift, offset idx & segmentSizeMask, which exists and is
\* an occupied slot of that segment; with segment size 4 and 5 elements,
\* index 4 is the second segment's offset 0; the k-th element appended to an
\* append-only list is read back at index k-1.
C14_IndexedAccess ==
    /\ [](OccupiedSlots /\ FifthInSecondSegment /\ AppendedReadBack)
    /\ [][GetStep]_vars

\* Get(4) has just returned the second segment's offset 0 on an append-only
\* list of segment size 4 whose fifth element is not the zero value.
C14_Witness ==
    /\ lret.op = "Get" /\ lret.idx = 4 /\ ~lret.panic
    /\ lret.ptr = <<1, 0>>
    /\ list.segmentSize = 4 /\ ListCount(list) = 5
    /\ appended.only /\ appended.vals[5] # ZeroValue
    /\ ListGet(list, 4) = appended.vals[5]

\* ---------------------------------------------------------- C15 (SpecList)
\* A FastRemoveAt(idx) step with 0 <= idx < count returns, takes one off
\* count, leaves every index below the new count other than idx as it was,
\* and leaves the default value in the slot that was the last.
FastRemoveAtRemoves ==
    LET last == ListCount(list) - 1
    IN  /\ ~lret'.panic
        /\ ListCount(list') = last
        /\ \A j \in 0..(last - 1) :
               j # lret'.idx =>
                   (~GetPanics(list', j) /\ ListGet(list', j) = ListGet(list, j))
        /\ InStorage(list', RefOf(list, last))
        /\ Deref(list', RefOf(list, last)) = list.defaultValue

\* After the step the slot of idx holds the value index count-1 held.
FormerLastAtIdx ==
    /\ InStorage(list', RefOf(list, lret'.idx))
    /\ Deref(list', RefOf(list, lret'.idx)) = ListGet(list, ListCount(list) - 1)

\* A FastRemoveAt step on an empty list or with idx out of range panics and
\* leaves the list as it was.
FastRemoveAtPanics == lret'.panic /\ list' = list

\* C15 as stated: ArrayList.FastRemoveAt(idx) with 0 <= idx < count takes one
\* off count, leaves at idx the value formerly at index count-1, leaves every
\* other index below the new count unchanged and resets the vacated last
\* slot to the default value; on an empty list or with idx out of range it
\* panics and leaves the list unchanged.
C15_FastRemoveAtMovesLast ==
    [][lret'.op = "FastRemoveAt" =>
          IF 0 <= lret'.idx /\ lret'.idx < ListCount(list)
          THEN FastRemoveAtRemoves /\ FormerLastAtIdx
          ELSE FastRemoveAtPanics]_vars

\* C15, amended: the value formerly at index count-1 is left at idx when
\* idx < count-1; for idx = count-1 the slot of idx is the vacated last
\* slot and holds the default value.  The rest as stated.
C15_FastRemoveAtMovesLastBelow ==
    [][lret'.op = "FastRemoveAt" =>
          IF 0 <= lret'.idx /\ lret'.idx < ListCount(list)
          THEN /\ FastRemoveAtRemoves
               /\ lret'.idx < ListCount(list) - 1 => FormerLastAtIdx
          ELSE FastRemoveAtPanics]_vars

\* FastRemoveAt has just moved a non-default last value from the second
\* segment into an index of the first, emptying the second segment.
C15_Witness ==
    /\ lret.op = "FastRemoveAt" /\ ~lret.panic
    /\ lret.idx < ListCount(list)
    /\ ListGet(list, lret.idx) # ZeroValue
    /\ \E j \in 0..(ListCount(list) - 1) : ListGet(list, j) = ZeroValue
    /\ Len(list.segments) = 2 /\ list.segmentIdx = 0
    /\ SegAt(list, 1).count = 0

\* ---------------------------------------------------------- C16 (SpecList)
RECURSIVE SumCounts(_)
\* The sum of the counts of the segments of segs
SumCounts(segs) ==
    IF segs = << >> THEN 0 ELSE Head(segs).count + SumCounts(Tail(segs))

\* C16: after any sequence of Add/Alloc, RemoveLast, FastRemoveAt and Clear,
\* count is the sum of the segment counts, every segment before segmentIdx
\* is full, every segment after segmentIdx is empty with its array still
\* allocated, and at most one segment follows segmentIdx.
C16_SegmentStructure ==
    /\ ListCount(list) = SumCounts(list.segments)
    /\ \A k \in 0..(Len(list.segments) - 1) :
           /\ k < list.segmentIdx => SegAt(list, k).count = list.segmentSize
           /\ k > list.segmentIdx =>
                  /\ SegAt(list, k).count = 0
                  /\ DOMAIN SegAt(list, k).arr = 0..(list.segmentSize - 1)
    /\ Len(list.segments) <= list.segmentIdx + 2

\* A removal has just emptied the third segment of a list: the cursor is back
\* on the full second segment and the emptied segment is kept after it.
C16_Witness ==
    /\ lret.op \in {"RemoveLast", "FastRemoveAt"} /\ ~lret.panic
    /\ Len(list.segments) = 3 /\ list.segmentIdx = 1
    /\ SegAt(list, 1).count = list.segmentSize
    /\ SegAt(list, 2).count = 0
    /\ ListCount(list) = 2 * list.segmentSize

\* ---------------------------------------------------------- C17 (SpecList)
\* C17 as stated: in every state with at least one segment, the segment
\* segmentIdx references is the sole segment of the list or is not full.
C17_CursorSoleOrNonFull ==
    Len(list.segments) >= 1 =>
        \/ Len(list.segments) = 1
        \/ SegAt(list, list.segmentIdx).count < list.segmentSize

\* C17, amended: in every state with at least one segment, segmentIdx
\* references an existing segment, the one that holds the last element: it
\* is not empty unless the list is empty, and then segmentIdx is 0.  (It can
\* be full while other segments exist.)
C17_CursorOnLastElement ==
    Len(list.segments) >= 1 =>
        /\ 0 <= list.segmentIdx /\ list.segmentIdx < Len(list.segments)
        /\ IF ListCount(list) > 0
           THEN /\ SegAt(list, list.segmentIdx).count >= 1
                /\ list.segmentIdx = Shr(ListCount(list) - 1, list.segmentSizeShift)
           ELSE list.segmentIdx = 0

\* The cursor is on a full segment that is not the only one: an Alloc has
\* just filled the second segment.
C17_Witness ==
    /\ lret.op \in {"Add", "Alloc"}
    /\ Len(list.segments) = 2 /\ list.segmentIdx = 1
    /\ list.segmentSize >= 2
    /\ SegAt(list, 1).count = list.segmentSize

\* ---------------------------------------------------------- C20 (SpecList)
\* C20: after any sequence of Add, Alloc, RemoveLast, FastRemoveAt and Clear,
\* the slot whose reference ArrayList.Alloc returns holds the default value
\* when it is returned.
C20_AllocReturnsDefault ==
    lret.op = "Alloc" =>
        (InStorage(list, lret.ptr) /\ Deref(list, lret.ptr) = list.defaultValue)

=============================================================================
